---------------------------- MODULE Spec2Model ----------------------------
(***************************************************************************)
(* Model of the student attendance tracker.                                *)
(*                                                                         *)
(*   live_scanner_static.py  the scan session: read a line, extract the    *)
(*                           id, look it up in the names table, insert a   *)
(*                           row into the scans table, append a row to the *)
(*                           daily CSV, update the rolling history.        *)
(*   student_input.py        the roster import: the menu, the name         *)
(*                           cleaning (to_title, clean_first,              *)
(*                           parse_fullname), finalize(), which filters,   *)
(*                           sorts and numbers the rows, the load into the *)
(*                           names table and the mirror CSV.               *)
(*                                                                         *)
(* Spec        one scan session on a loaded roster                         *)
(* SpecBuild   finalize on every small table of names                      *)
(* SpecText    the text functions on every short string                    *)
(* SpecImport  import runs in replace and append mode, and the session's   *)
(*             start-up check of the database the import creates           *)
(*                                                                         *)
(* Text that the program inspects character by character (input lines,     *)
(* names) is a sequence of one-character strings.  Text that the program   *)
(* only produces (times, dates, paths, CSV numbers) is a TLA+ string.      *)
(* An optional value is <<>> (None) or <<v>>.                              *)
(***************************************************************************)
EXTENDS Integers, Sequences, FiniteSets, TLC

VARIABLES
    \* ---- scan session: program state (live_scanner_static.py) ----
    pc,            \* position of main(): start, await, normalize, lookup,
                   \*   insert, csv, update, stopped, exit
    db_exists,     \* SQLITE_DB_PATH.exists()
    scans_table,   \* TRUE once CREATE TABLE IF NOT EXISTS scans was committed
    dirs,          \* directories that exist at or under OUTPUT_DIR
    files,         \* daily CSV files: path -> sequence of lines
    names,         \* the names table (roster), rows in rowid order
    scans,         \* committed rows of the scans table, in id order
    pending,       \* rows inserted on conn but not yet committed
    clock,         \* wall clock, minutes since 00:00 of Epoch
    raw,           \* main's raw
    tid,           \* main's tid
    found,         \* main's (first, last)
    ev,            \* main's (hhmm, mdy)
    csv_path,      \* main's csv_path
    status,        \* main's current_line / subline
    history,       \* main's history deque
    \* ---- scan session: observers, not read by the program ----
    exc,           \* exception raised by the latest program step, or <<>>
    interrupted,   \* TRUE once the KeyboardInterrupt clause has run
    cyc,           \* the current cycle: number, line read, calls made, and
                   \*   the stores as they were when the line was read
    prev,          \* the cycle before it and the status it ended with
    successes,     \* events of the cycles that reached the success status
    faults,        \* number of failures injected so far
    \* ---- roster build (student_input.py) ----
    bpc,           \* position of the import: idle, menu, read, build, sqlite,
                   \*   csv, done, exit; input and built when finalize runs alone
    df_out,        \* finalize's argument: rows of (first_name, last_name)
    order,         \* index labels of the kept rows in sorted order
    cleaned,       \* finalize's result
    \* ---- text functions applied to one input (both programs) ----
    tpc,           \* input, or the name of the function that was applied
    tkind,         \* what the input is: a name cell or a scanned line
    txt,           \* the function's argument
    res,           \* the function's result
    \* ---- roster import (student_input.py) ----
    sql_if_exists, \* the setting SQL_IF_EXISTS of the run
    input_csv,     \* the file at INPUT_CSV_PATH
    choice,        \* menu's choice
    df,            \* main's df
    names_index,   \* TRUE when the unique index on names(tracking_id) exists
    mirror,        \* the file OUTPUT_DIR / OUTPUT_CSV_NAME
    import_exit_code,  \* exit status of the import, once it has ended
    runs,          \* number of import runs started
    before,        \* the stores as they were when the run started (observer)
    \* ---- scan session: exit status ----
    exit_code      \* exit status of the session when it ended by sys.exit

svars == <<pc, db_exists, scans_table, dirs, files, names, scans, pending,
           clock, raw, tid, found, ev, csv_path, status, history, exit_code,
           exc, interrupted, cyc, prev, successes, faults>>
bvars == <<bpc, df_out, order, cleaned>>
tvars == <<tpc, tkind, txt, res>>
ivars == <<sql_if_exists, input_csv, choice, df, names_index, mirror,
           import_exit_code, runs, before>>
vars  == <<svars, bvars, tvars, ivars>>

None    == <<>>
Some(v) == <<v>>

-----------------------------------------------------------------------------
(* Bounds *)
MaxCycles == 4      \* lines read in one session
MaxClock  == 1      \* minutes the clock may advance during the session
MaxFaults == 1      \* failures injected during the session
MaxRows   == 4      \* rows of an input table of the roster build
MaxLen    == 5      \* characters of an input of the text functions
MaxRuns   == 2      \* runs of the import

-----------------------------------------------------------------------------
(* Characters *)
Upper == <<"A","B","C","D","E","F","G","H","I","J","K","L","M",
           "N","O","P","Q","R","S","T","U","V","W","X","Y","Z">>
Lower == <<"a","b","c","d","e","f","g","h","i","j","k","l","m",
           "n","o","p","q","r","s","t","u","v","w","x","y","z">>
Digit == <<"0","1","2","3","4","5","6","7","8","9">>
Punct == <<" ", "!", ",", ".", ":">>
PunctCode == <<32, 33, 44, 46, 58>>

IndexIn(seq, c) == CHOOSE i \in 1..Len(seq) : seq[i] = c
In(seq, c)      == \E i \in 1..Len(seq) : seq[i] = c

\* Unicode code point of a character: Python compares str by code point.
ord(c) ==
    IF In(Upper, c) THEN 64 + IndexIn(Upper, c)
    ELSE IF In(Lower, c) THEN 96 + IndexIn(Lower, c)
    ELSE IF In(Digit, c) THEN 47 + IndexIn(Digit, c)
    ELSE PunctCode[IndexIn(Punct, c)]

isdigit(c) == In(Digit, c)
isspace(c) == c = " "


-----------------------------------------------------------------------------
(* str.strip(): drop leading and trailing whitespace *)
RECURSIVE lstrip(_)
lstrip(s) == IF s # <<>> /\ isspace(Head(s)) THEN lstrip(Tail(s)) ELSE s

RECURSIVE rstrip(_)
rstrip(s) ==
    IF s # <<>> /\ isspace(s[Len(s)]) THEN rstrip(SubSeq(s, 1, Len(s) - 1)) ELSE s

strip(s) == rstrip(lstrip(s))

\* int(): the value of a non-empty string of decimal digits
RECURSIVE int(_)
int(d) ==
    IF d = <<>> THEN 0
    ELSE 10 * int(SubSeq(d, 1, Len(d) - 1)) + (IndexIn(Digit, d[Len(d)]) - 1)

\* int() raises ValueError above the interpreter's limit on digit strings
int_max_str_digits == 4300

\* (variant: a line without digits is read as id 0)
normalize_scan_zero(s) ==
    LET digits == SelectSeq(s, isdigit)
    IN  IF digits = <<>> THEN Some(0) ELSE Some(int(digits))

\* (variant: the id is the first run of digits, as re.search(r"\d+") finds it)
normalize_scan_first_run(s) ==
    LET at  == {i \in 1..Len(s) : isdigit(s[i])}
        a   == CHOOSE i \in at : \A j \in at : i <= j
        b   == CHOOSE i \in at : /\ \A j \in a..i : j \in at
                                 /\ (i + 1) \notin at
        run == SubSeq(s, a, b)
    IN  IF at = {} THEN None
        ELSE IF Len(run) > int_max_str_digits THEN None
        ELSE Some(int(run))

\* normalize_scan
normalize_scan(s) ==
    LET digits == SelectSeq(s, isdigit)
    IN  IF digits = <<>> THEN None
        ELSE IF Len(digits) > int_max_str_digits THEN None
        ELSE Some(int(digits))

-----------------------------------------------------------------------------
(* datetime.now() and strftime *)
MinutesPerDay == 24 * 60
Epoch == [Y |-> 2025, m |-> 8, d |-> 31]    \* date of the session's start

IsLeap(y) == (y % 4 = 0 /\ y % 100 # 0) \/ y % 400 = 0

DaysInMonth(y, m) ==
    IF m = 2 THEN (IF IsLeap(y) THEN 29 ELSE 28)
    ELSE IF m \in {4, 6, 9, 11} THEN 30 ELSE 31

NextDay(dt) ==
    IF dt.d < DaysInMonth(dt.Y, dt.m) THEN [dt EXCEPT !.d = dt.d + 1]
    ELSE IF dt.m < 12 THEN [dt EXCEPT !.d = 1, !.m = dt.m + 1]
    ELSE [Y |-> dt.Y + 1, m |-> 1, d |-> 1]

RECURSIVE AddDays(_, _)
AddDays(dt, n) == IF n = 0 THEN dt ELSE AddDays(NextDay(dt), n - 1)

\* the datetime that datetime.now() returns when the clock reads c
now(c) ==
    LET dt == AddDays(Epoch, c \div MinutesPerDay)
        t  == c % MinutesPerDay
    IN  [Y |-> dt.Y, m |-> dt.m, d |-> dt.d, H |-> t \div 60, M |-> t % 60]

Pad2(n) == IF n < 10 THEN "0" \o ToString(n) ELSE ToString(n)

strftime_HM(n)  == Pad2(n.H) \o ":" \o Pad2(n.M)                           \* "%H:%M"
strftime_mdY(n) == Pad2(n.m) \o ":" \o Pad2(n.d) \o ":" \o ToString(n.Y)   \* "%m:%d:%Y"
month_folder(n) == Pad2(n.m) \o "_" \o ToString(n.Y)                       \* "%m_%Y"
filename(n)     == Pad2(n.m) \o "_" \o Pad2(n.d) \o "_" \o ToString(n.Y) \o ".csv"

\* get_daily_csv_path: the file's path below OUTPUT_DIR
get_daily_csv_path(n) == month_folder(n) \o "/" \o filename(n)

-----------------------------------------------------------------------------
(* The names table and the scans table *)

\* (variant: the two columns are returned in the wrong order)
fetch_swapped(tbl, t) ==
    LET hits == SelectSeq(tbl, LAMBDA r : r.tracking_id = t)
    IN  IF hits = <<>> THEN None
        ELSE Some(<<hits[1].last_name, hits[1].first_name>>)

\* (variant: the WHERE clause is missing, a miss returns the table's first row)
fetch_any(tbl, t) ==
    LET hits == SelectSeq(tbl, LAMBDA r : r.tracking_id = t)
    IN  IF hits = <<>> THEN Some(<<tbl[1].first_name, tbl[1].last_name>>)
        ELSE Some(<<hits[1].first_name, hits[1].last_name>>)

\* fetch_name_by_tracking_id: fetchone() of the matching rows
fetch_name_by_tracking_id(tbl, t) ==
    LET hits == SelectSeq(tbl, LAMBDA r : r.tracking_id = t)
    IN  IF hits = <<>> THEN None
        ELSE Some(<<hits[1].first_name, hits[1].last_name>>)

\* the row that insert_scan inserts when the clock reads c
scan_row(t, first, last, c) ==
    [tracking_id |-> t, first_name |-> first, last_name |-> last,
     time_hhmm |-> strftime_HM(now(c)), date_mmddyyyy |-> strftime_mdY(now(c))]

\* (variant: the commit is lost and the rows never reach the table)
commit_lost(tbl, txn) == tbl

\* conn.commit(): the open transaction's rows become table rows
commit(tbl, txn) == tbl \o txn

-----------------------------------------------------------------------------
(* Daily CSV: a line is the header or a data row of five text fields *)
\* (a name cell holds a character sequence; the header's two name cells are
\* written as sequences of one piece)
HeaderLine == [kind |-> "header",
               fields |-> <<"tracking_id", <<"first_name">>, <<"last_name">>,
                            "time_hhmm", "date_mmddyyyy">>]

\* writer.writerow(row): the integer id is written as its decimal text
DataLine(row) ==
    [kind |-> "data",
     fields |-> <<ToString(row.tracking_id), row.first_name, row.last_name,
                  row.time_hhmm, row.date_mmddyyyy>>]

file_exists(fs, path) == path \in DOMAIN fs

\* (variant: the file is opened with "w", which truncates it)
write_lines_truncate(fs, path, ls) ==
    [p \in DOMAIN fs \cup {path} |-> IF p = path THEN ls ELSE fs[p]]

\* the file after open("a") ... close() wrote the lines ls
write_lines(fs, path, ls) ==
    [p \in DOMAIN fs \cup {path} |->
        IF p = path
        THEN (IF file_exists(fs, path) THEN fs[path] ELSE <<>>) \o ls
        ELSE fs[p]]

\* append_daily_csv's writes: the header only for a file that did not exist
csv_lines(fs, path, row) ==
    (IF file_exists(fs, path) THEN <<>> ELSE <<HeaderLine>>) \o <<DataLine(row)>>

append_daily_csv(fs, path, row) == write_lines(fs, path, csv_lines(fs, path, row))

-----------------------------------------------------------------------------
(* Rolling history: deque(maxlen=3) *)
history_maxlen == 3

\* (variant: the new item goes last and the first item is dropped)
append_right(dq, x) ==
    LET all == dq \o <<x>>
    IN  IF Len(all) > history_maxlen THEN SubSeq(all, 2, Len(all)) ELSE all

\* deque.appendleft: the new item first, items beyond maxlen dropped from the right
appendleft(dq, x) ==
    LET all == <<x>> \o dq
    IN  IF Len(all) > history_maxlen THEN SubSeq(all, 1, history_maxlen) ELSE all


-----------------------------------------------------------------------------
(* Roster build: student_input.finalize *)

\* Python's str < str: lexicographic by code point
RECURSIVE str_lt(_, _)
str_lt(a, b) ==
    IF b = <<>> THEN FALSE
    ELSE IF a = <<>> THEN TRUE
    ELSE IF ord(Head(a)) # ord(Head(b)) THEN ord(Head(a)) < ord(Head(b))
    ELSE str_lt(Tail(a), Tail(b))

\* ascending order of the sort keys by=["first_name", "last_name"]
key_lt(r1, r2) ==
    \/ str_lt(r1.first_name, r2.first_name)
    \/ r1.first_name = r2.first_name /\ str_lt(r1.last_name, r2.last_name)

\* out[(first_name.str.len() > 0) | (last_name.str.len() > 0)]:
\* the index labels of the rows that are kept, in input order
kept_labels(out) ==
    SelectSeq([i \in 1..Len(out) |-> i],
              LAMBDA i : Len(out[i].first_name) > 0 \/ Len(out[i].last_name) > 0)

\* (variant: the right run wins ties, the sort is not stable)
RECURSIVE merge_unstable(_, _, _)
merge_unstable(out, l, r) ==
    IF l = <<>> THEN r
    ELSE IF r = <<>> THEN l
    ELSE IF ~key_lt(out[Head(l)], out[Head(r)])
         THEN <<Head(r)>> \o merge_unstable(out, l, Tail(r))
         ELSE <<Head(l)>> \o merge_unstable(out, Tail(l), r)

\* stable merge of two sorted runs of labels: the left run wins ties
RECURSIVE merge(_, _, _)
merge(out, l, r) ==
    IF l = <<>> THEN r
    ELSE IF r = <<>> THEN l
    ELSE IF key_lt(out[Head(r)], out[Head(l)])
         THEN <<Head(r)>> \o merge(out, l, Tail(r))
         ELSE <<Head(l)>> \o merge(out, Tail(l), r)

\* kind="mergesort"
RECURSIVE mergesort(_, _)
mergesort(out, labels) ==
    IF Len(labels) <= 1 THEN labels
    ELSE LET h == Len(labels) \div 2
         IN  merge(out, mergesort(out, SubSeq(labels, 1, h)),
                        mergesort(out, SubSeq(labels, h + 1, Len(labels))))

\* out.sort_values(...): the kept labels in sorted order
sort_values(out) == mergesort(out, kept_labels(out))

first_tracking_id == 100

\* range(100, 100 + len(out)): the id of the row at position i (from 1)
tracking_id_at(i) == first_tracking_id + (i - 1)

\* finalize: filter, sort, number
finalize(out) ==
    LET o == sort_values(out)
    IN  [i \in 1..Len(o) |->
            [tracking_id |-> tracking_id_at(i),
             first_name  |-> out[o[i]].first_name,
             last_name   |-> out[o[i]].last_name]]

\* ---- inputs of the roster build ----
Name(f, l) == [first_name |-> f, last_name |-> l]
Amy == <<"A","m","y">>
Am  == <<"A","m">>
Bo  == <<"B","o">>
Cy  == <<"C","y">>
Di  == <<"D","i">>
Eve == <<"E","v","e">>
Lee == <<"L","e","e">>
Zed == <<"Z","e","d">>
Poe == <<"P","o","e">>
Kim == <<"K","i","m">>
LEE == <<"L","E","E">>

\* rows that clean_first and to_title can produce: equal first names, a first
\* name that is a prefix of another, an upper-case last name, missing names
NameRows == { Name(Amy, Zed), Name(Amy, Lee), Name(Am, Zed), Name(Bo, Lee),
              Name(Bo, LEE), Name(<<>>, Lee), Name(Amy, <<>>), Name(<<>>, <<>>) }

\* the tables of at most n rows
InputTables(n) == UNION {[1..k -> NameRows] : k \in 0..n}

BuildInit ==
    /\ bpc = "input"
    /\ df_out \in InputTables(MaxRows)
    /\ order = <<>>
    /\ cleaned = <<>>

BuildIdle ==
    /\ bpc = "idle"
    /\ df_out = <<>>
    /\ order = <<>>
    /\ cleaned = <<>>

\* build_from_separate's last line: return finalize(out)
Finalize ==
    /\ bpc = "input"
    /\ order' = sort_values(df_out)
    /\ cleaned' = finalize(df_out)
    /\ bpc' = "built"
    /\ UNCHANGED <<df_out, svars, tvars, ivars>>


-----------------------------------------------------------------------------
(* Name cleaning: student_input.py *)

upper(c) == IF In(Lower, c) THEN Upper[IndexIn(Lower, c)] ELSE c
lower(c) == IF In(Upper, c) THEN Lower[IndexIn(Upper, c)] ELSE c

\* str.isupper(): no lower-case letter and at least one upper-case letter
isupper(w) ==
    /\ \A i \in 1..Len(w) : ~In(Lower, w[i])
    /\ \E i \in 1..Len(w) : In(Upper, w[i])

\* str.capitalize(): first character upper-cased, the rest lower-cased
capitalize(w) ==
    [i \in 1..Len(w) |-> IF i = 1 THEN upper(w[i]) ELSE lower(w[i])]

\* re.sub(r"\s+", " ", s): every run of whitespace becomes one space
RECURSIVE re_sub_spaces(_)
re_sub_spaces(s) ==
    IF s = <<>> THEN <<>>
    ELSE IF isspace(Head(s)) THEN <<" ">> \o re_sub_spaces(lstrip(s))
    ELSE <<Head(s)>> \o re_sub_spaces(Tail(s))

\* _norm: strip, then collapse the whitespace runs
_norm(s) == re_sub_spaces(strip(s))

\* length of the leading run of non-whitespace characters
RECURSIVE word_len(_)
word_len(s) ==
    IF s = <<>> \/ isspace(Head(s)) THEN 0 ELSE 1 + word_len(Tail(s))

\* re.split(r"(\s+)", s): the pattern has a capturing group, so the result
\* holds the words AND the whitespace runs between them, alternating
RECURSIVE re_split(_)
re_split(s) ==
    LET n    == word_len(s)
        rest == SubSeq(s, n + 1, Len(s))
        m    == Len(rest) - Len(lstrip(rest))
    IN  IF rest = <<>> THEN <<SubSeq(s, 1, n)>>
        ELSE <<SubSeq(s, 1, n), SubSeq(rest, 1, m)>>
                 \o re_split(SubSeq(rest, m + 1, Len(rest)))

\* sep.join(pieces)
RECURSIVE join(_, _)
join(sep, pieces) ==
    IF pieces = <<>> THEN <<>>
    ELSE IF Len(pieces) = 1 THEN pieces[1]
    ELSE pieces[1] \o sep \o join(sep, Tail(pieces))

\* to_title's list comprehension, for one piece w
title_piece(w) == IF isupper(w) /\ Len(w) > 1 THEN w ELSE capitalize(w)

\* to_title
to_title(s) ==
    LET t      == _norm(s)
        pieces == re_split(t)
    IN  IF t = <<>> THEN t
        ELSE join(<<" ">>, [i \in 1..Len(pieces) |-> title_piece(pieces[i])])

\* re.match(r"^[A-Z]\.?$", s)
re_match_initial(s) ==
    /\ Len(s) \in {1, 2}
    /\ In(Upper, s[1])
    /\ Len(s) = 2 => s[2] = "."

\* clean_first
clean_first(first) ==
    LET f == _norm(first)
    IN  IF Len(f) = 1 \/ re_match_initial(f) THEN <<>> ELSE to_title(f)

\* str.split(): the whitespace-separated tokens
RECURSIVE split(_)
split(s) ==
    LET t == lstrip(s)
        n == word_len(t)
    IN  IF t = <<>> THEN <<>>
        ELSE <<SubSeq(t, 1, n)>> \o split(SubSeq(t, n + 1, Len(t)))

\* s.split(",", 1) of a string that contains a comma
split_comma(s) ==
    LET i == CHOOSE k \in 1..Len(s) :
                 s[k] = "," /\ \A j \in 1..(k - 1) : s[j] # ","
    IN  <<SubSeq(s, 1, i - 1), SubSeq(s, i + 1, Len(s))>>

\* parse_fullname: the pair (first, last)
parse_fullname(s) ==
    LET r == _norm(s)
    IN  IF r = <<>> THEN <<<<>>, <<>>>>
        ELSE IF In(r, ",")
        THEN LET parts  == split_comma(r)
                 last   == strip(parts[1])
                 given  == strip(parts[2])
                 tokens == split(given)
                 first  == IF tokens # <<>> THEN tokens[1] ELSE <<>>
             IN  <<clean_first(first), to_title(last)>>
        ELSE LET tokens == split(r)
             IN  IF Len(tokens) = 1 THEN <<clean_first(tokens[1]), <<>>>>
                 ELSE <<clean_first(tokens[1]), to_title(tokens[Len(tokens)])>>

\* ---- inputs of the text functions ----
NameChars == {"a", "B", " ", ".", ","}
LineChars == {"1", "0", "a", " "}

\* the strings of at most n characters over an alphabet
Texts(chars, n) == UNION {[1..k -> chars] : k \in 0..n}

SmithJane == <<"S","m","i","t","h",","," ","J","a","n","e"," ","A",".">>

\* a line with more digits than int() converts
LongLine == [i \in 1..(int_max_str_digits + 1) |-> "1"]

TextInit ==
    /\ tpc = "input"
    /\ tkind \in {"name", "line"}
    /\ txt \in IF tkind = "name" THEN Texts(NameChars, MaxLen) \cup {SmithJane}
               ELSE Texts(LineChars, MaxLen) \cup {LongLine}
    /\ res = None

TextIdle ==
    /\ tpc = "idle"
    /\ tkind = "name"
    /\ txt = <<>>
    /\ res = None

ToTitle ==
    /\ tpc = "input" /\ tkind = "name"
    /\ res' = to_title(txt)
    /\ tpc' = "to_title"
    /\ UNCHANGED <<tkind, txt, svars, bvars, ivars>>

CleanFirst ==
    /\ tpc = "input" /\ tkind = "name"
    /\ res' = clean_first(txt)
    /\ tpc' = "clean_first"
    /\ UNCHANGED <<tkind, txt, svars, bvars, ivars>>

ParseFullname ==
    /\ tpc = "input" /\ tkind = "name"
    /\ res' = parse_fullname(txt)
    /\ tpc' = "parse_fullname"
    /\ UNCHANGED <<tkind, txt, svars, bvars, ivars>>

NormalizeScan ==
    /\ tpc = "input" /\ tkind = "line"
    /\ res' = normalize_scan(txt)
    /\ tpc' = "normalize_scan"
    /\ UNCHANGED <<tkind, txt, svars, bvars, ivars>>

-----------------------------------------------------------------------------
(* Roster import: student_input.main *)

COMBINED_NAME_COL == "Student Name"
FIRST_COL         == "First Name"
LAST_COL          == "Last Name"

\* the first of the columns cols that the table d lacks, or None
missing_column(d, cols) ==
    LET absent == SelectSeq(cols, LAMBDA c : c \notin d.columns)
    IN  IF absent = <<>> THEN None ELSE Some(absent[1])

\* (variant: a missing column reads as empty cells)
build_from_separate_lenient(d) ==
    [raised |-> None,
     out    |-> [i \in 1..Len(d.rows) |->
                    Name(IF FIRST_COL \in d.columns
                         THEN clean_first(d.rows[i][FIRST_COL]) ELSE <<>>,
                         IF LAST_COL \in d.columns
                         THEN to_title(d.rows[i][LAST_COL]) ELSE <<>>)]]

\* build_from_separate up to the call of finalize: the ValueError it raises,
\* or the frame of cleaned first names and title-cased last names
build_from_separate(d) ==
    LET missing == missing_column(d, <<FIRST_COL, LAST_COL>>)
    IN  IF missing # None
        THEN [raised |-> Some("Column not found in CSV: " \o missing[1]),
              out    |-> <<>>]
        ELSE [raised |-> None,
              out    |-> [i \in 1..Len(d.rows) |->
                             Name(clean_first(d.rows[i][FIRST_COL]),
                                  to_title(d.rows[i][LAST_COL]))]]

\* build_from_combined up to the call of finalize
build_from_combined(d) ==
    LET missing == missing_column(d, <<COMBINED_NAME_COL>>)
    IN  IF missing # None
        THEN [raised |-> Some("Combined name column not found in CSV: " \o missing[1]),
              out    |-> <<>>]
        ELSE [raised |-> None,
              out    |-> [i \in 1..Len(d.rows) |->
                             LET parsed == parse_fullname(d.rows[i][COMBINED_NAME_COL])
                             IN  Name(parsed[1], parsed[2])]]

\* the tracking ids stored in a table
ids(tbl) == {tbl[i].tracking_id : i \in 1..Len(tbl)}

\* (variant: append mode inserts only the rows whose id is not in the table)
to_sql_skip_taken(tbl, index, rows, if_exists) ==
    IF if_exists = "replace"
    THEN [raised |-> None, names |-> rows, index |-> FALSE]
    ELSE [raised |-> None,
          names  |-> tbl \o SelectSeq(rows, LAMBDA r : r.tracking_id \notin ids(tbl)),
          index  |-> index]

\* df_sql.to_sql(table, conn, if_exists=..., index=False): replace drops the
\* table with its indexes and writes the rows to a new one; append inserts the
\* rows, creating the table when it is absent.  An insert that breaks the
\* unique index raises IntegrityError and the transaction is rolled back.
to_sql(tbl, index, rows, if_exists) ==
    IF if_exists = "replace"
    THEN [raised |-> None, names |-> rows, index |-> FALSE]
    ELSE IF index /\ ids(tbl) \cap ids(rows) # {}
    THEN [raised |-> Some("UNIQUE constraint failed: names.tracking_id"),
          names |-> tbl, index |-> index]
    ELSE [raised |-> None, names |-> tbl \o rows, index |-> index]

\* to_sqlite after the connection is open: to_sql, then in replace mode the
\* unique index on tracking_id.  (The columns imported_at and source_file,
\* which no query reads, are left out of the rows.)
to_sqlite(tbl, index, rows, if_exists) ==
    LET w == to_sql(tbl, index, rows, if_exists)
    IN  IF w.raised = None /\ if_exists = "replace"
        THEN [w EXCEPT !.index = TRUE]
        ELSE w

\* write_output_csv: df[["first_name", "last_name", "tracking_id"]].to_csv
output_csv(rows) ==
    <<[kind |-> "header", fields |-> <<<<"first_name">>, <<"last_name">>, "tracking_id">>]>>
    \o [i \in 1..Len(rows) |->
           [kind   |-> "data",
            fields |-> <<rows[i].first_name, rows[i].last_name,
                         ToString(rows[i].tracking_id)>>]]

\* ---- inputs of the import ----
Row2(f, l) == (FIRST_COL :> f) @@ (LAST_COL :> l)
Row1(n)    == (COMBINED_NAME_COL :> n)

\* the input CSV as read_csv returns it, or None when the file is missing
InputFiles ==
    { Some([columns |-> {FIRST_COL, LAST_COL},
            rows |-> << Row2(<<"b","o">>, <<"l","e","e">>),
                        Row2(<<"a","m","y">>, <<"Z","E","D">>),
                        Row2(<<>>, <<>>) >>]),
      Some([columns |-> {FIRST_COL, LAST_COL},
            rows |-> << Row2(<<"c","y">>, <<"p","o","e">>) >>]),
      Some([columns |-> {COMBINED_NAME_COL},
            rows |-> << Row1(SmithJane) >>]),
      Some([columns |-> {FIRST_COL},
            rows |-> << (FIRST_COL :> <<"d","i">>) >>]),
      None }

\* what the operator types at the menu prompt
Typed == { <<"2">>, <<" ","2"," ">>, <<"1">>, <<>> }

SQL_IF_EXISTS == {"replace", "append"}      \* the values of the setting

ImportIdle ==
    /\ sql_if_exists = "replace"
    /\ input_csv = None
    /\ choice = <<>>
    /\ df = None
    /\ names_index = FALSE
    /\ mirror = None
    /\ import_exit_code = None
    /\ runs = 0
    /\ before = [names |-> <<>>, names_index |-> FALSE, mirror |-> None]

\* the program is started: the setting and the input file are what they are
StartImport ==
    /\ bpc \in {"idle", "done", "exit"}
    /\ runs < MaxRuns
    /\ runs' = runs + 1
    /\ sql_if_exists' \in SQL_IF_EXISTS
    /\ input_csv' \in InputFiles
    /\ before' = [names |-> names, names_index |-> names_index, mirror |-> mirror]
    /\ choice' = <<>>
    /\ df' = None
    /\ df_out' = <<>>
    /\ order' = <<>>
    /\ cleaned' = <<>>
    /\ import_exit_code' = None
    /\ bpc' = "menu"
    /\ UNCHANGED <<svars, tvars, names_index, mirror>>

\* menu: only "2" is accepted; sys.exit(1) is not an Exception, so main's
\* handler lets it through
Menu ==
    /\ bpc = "menu"
    /\ \E typed \in Typed :
        /\ choice' = strip(typed)
        /\ IF choice' \notin {<<"2">>}
           THEN bpc' = "exit" /\ import_exit_code' = Some(1)
           ELSE bpc' = "read" /\ UNCHANGED import_exit_code
    /\ UNCHANGED <<svars, tvars, df_out, order, cleaned, sql_if_exists,
                   input_csv, df, names_index, mirror, runs, before>>

\* read_csv; a missing file raises, and main's handler exits with 2
ReadCsv ==
    /\ bpc = "read"
    /\ IF input_csv = None
       THEN bpc' = "exit" /\ import_exit_code' = Some(2) /\ UNCHANGED df
       ELSE bpc' = "build" /\ df' = input_csv /\ UNCHANGED import_exit_code
    /\ UNCHANGED <<svars, tvars, df_out, order, cleaned, sql_if_exists,
                   input_csv, choice, names_index, mirror, runs, before>>

\* build_from_combined or build_from_separate, each ending in finalize
Build ==
    /\ bpc = "build"
    /\ LET b == IF choice = <<"1">> THEN build_from_combined(df[1])
                ELSE build_from_separate(df[1])
       IN  IF b.raised # None
           THEN /\ bpc' = "exit" /\ import_exit_code' = Some(2)
                /\ UNCHANGED <<df_out, order, cleaned>>
           ELSE /\ df_out' = b.out
                /\ order' = sort_values(b.out)
                /\ cleaned' = finalize(b.out)
                /\ bpc' = "sqlite"
                /\ UNCHANGED import_exit_code
    /\ UNCHANGED <<svars, tvars, sql_if_exists, input_csv, choice, df,
                   names_index, mirror, runs, before>>

\* to_sqlite: sqlite3.connect creates the database file
ToSqlite ==
    /\ bpc = "sqlite"
    /\ db_exists' = TRUE
    /\ LET w == to_sqlite(names, names_index, cleaned, sql_if_exists)
       IN  /\ names' = w.names
           /\ names_index' = w.index
           /\ IF w.raised # None
              THEN bpc' = "exit" /\ import_exit_code' = Some(2)
              ELSE bpc' = "csv" /\ UNCHANGED import_exit_code
    /\ UNCHANGED <<tvars, df_out, order, cleaned, sql_if_exists, input_csv,
                   choice, df, mirror, runs, before, pc, scans_table, dirs,
                   files, scans, pending, clock, raw, tid, found, ev, csv_path,
                   status, history, exit_code, exc, interrupted, cyc, prev,
                   successes, faults>>

\* write_output_csv, then main returns
WriteOutputCsv ==
    /\ bpc = "csv"
    /\ mirror' = Some(output_csv(cleaned))
    /\ bpc' = "done"
    /\ import_exit_code' = Some(0)
    /\ UNCHANGED <<svars, tvars, df_out, order, cleaned, sql_if_exists,
                   input_csv, choice, df, names_index, runs, before>>

-----------------------------------------------------------------------------
(* Scan session: live_scanner_static.main *)

\* ---- inputs of the session ----
\* rosters that student_input.py can have loaded into the names table before
\* the session starts; the session's process is the only user of the database
\* while it runs
RosterA == finalize(<<Name(Amy, Zed), Name(Bo, Lee), Name(Amy, Lee),
                      Name(Cy, Poe), Name(Di, Kim)>>)
RosterB == finalize(<<Name(Eve, Kim), Name(Bo, Zed), Name(Am, Lee),
                      Name(Cy, Lee), Name(Di, Poe)>>)
Rosters == {RosterA, RosterB}

\* lines the operator or the scanner can send
Lines == { <<"i","d",":"," ","1","0","4"," ","!">>,     \* 104: in both rosters
           <<"0","7">>,                                 \* 7: in neither
           <<" ","a","b">> }                            \* no digit

StartClock == MinutesPerDay - 1     \* the session starts at 23:59 of Epoch

\* ---- status messages: current_line / subline ----
Begin              == [kind |-> "BEGIN"]
InvalidScan(r)     == [kind |-> "INVALID_SCAN", raw |-> r]
IdNotFound(t)      == [kind |-> "ID_NOT_FOUND", tid |-> t]
Error(e)           == [kind |-> "ERROR", e |-> e]
Success(e, path)   == [kind |-> "SUCCESS", event |-> e, csv_path |-> path]

\* the stores a cycle may write
Stores == [scans |-> scans, pending |-> pending, files |-> files, history |-> history]

NoCycle == [n |-> 0, line |-> None, lookups |-> 0, records |-> 0, matching |-> {},
            start |-> [scans |-> <<>>, pending |-> <<>>, files |-> <<>>, history |-> <<>>]]
NoPrev  == [cyc |-> NoCycle, status |-> Begin]

SessionInit ==
    /\ pc = "start"
    /\ db_exists \in BOOLEAN
    /\ scans_table = FALSE
    /\ dirs = {}
    /\ files = <<>>
    /\ names \in IF db_exists THEN Rosters ELSE {<<>>}
    /\ scans = <<>>
    /\ pending = <<>>
    /\ clock = StartClock
    /\ raw = <<>>
    /\ tid = None
    /\ found = None
    /\ ev = None
    /\ csv_path = None
    /\ status = Begin
    /\ history = <<>>
    /\ exit_code = None
    /\ exc = None
    /\ interrupted = FALSE
    /\ cyc = NoCycle
    /\ prev = NoPrev
    /\ successes = <<>>
    /\ faults = 0

SessionIdle ==
    /\ pc = "idle"
    /\ db_exists = FALSE
    /\ scans_table = FALSE
    /\ dirs = {}
    /\ files = <<>>
    /\ names = <<>>
    /\ scans = <<>>
    /\ pending = <<>>
    /\ clock = StartClock
    /\ raw = <<>>
    /\ tid = None
    /\ found = None
    /\ ev = None
    /\ csv_path = None
    /\ status = Begin
    /\ history = <<>>
    /\ exit_code = None
    /\ exc = None
    /\ interrupted = FALSE
    /\ cyc = NoCycle
    /\ prev = NoPrev
    /\ successes = <<>>
    /\ faults = 0

InLoop == pc \in {"await", "normalize", "lookup", "insert", "csv", "update"}

\* main, lines 207-220: the database must exist; the output directory and the
\* scans table are created; the history starts empty
Setup ==
    /\ pc = "start"
    /\ IF ~db_exists
       THEN /\ pc' = "exit"
            /\ exit_code' = Some(1)
            /\ UNCHANGED <<scans_table, dirs, history, status>>
       ELSE /\ dirs' = dirs \cup {"."}
            /\ scans_table' = TRUE
            /\ history' = <<>>
            /\ status' = Begin
            /\ pc' = "await"
            /\ UNCHANGED exit_code
    /\ UNCHANGED <<bvars, tvars, ivars, db_exists, files, names, scans,
                   pending, clock, raw, tid, found, ev, csv_path, exc,
                   interrupted, cyc, prev, successes, faults>>

\* (variant: the handler leaves the loop)
on_exception_break(e) == [pc |-> "stopped", status |-> Error(e)]

\* except Exception as e (lines 276-280): the status shows the error and the
\* loop continues
on_exception(e) == [pc |-> "await", status |-> Error(e)]

\* a program step raised e
Raise(e) ==
    /\ faults < MaxFaults
    /\ faults' = faults + 1
    /\ exc' = Some(e)
    /\ pc' = on_exception(e).pc
    /\ status' = on_exception(e).status

NoRaise == exc' = None /\ UNCHANGED faults

NewCycle(line) ==
    /\ cyc.n < MaxCycles
    /\ cyc' = [n |-> cyc.n + 1, line |-> line, lookups |-> 0, records |-> 0,
               matching |-> {}, start |-> Stores]
    /\ prev' = [cyc |-> cyc, status |-> status]

\* lines 231-234: the blocking read returns a line
ReadLine ==
    /\ pc = "await"
    /\ \E line \in Lines :
          /\ raw' = strip(line)
          /\ NewCycle(Some(strip(line)))
    /\ pc' = "normalize"
    /\ NoRaise
    /\ UNCHANGED <<bvars, tvars, ivars, exit_code, db_exists, scans_table,
                   dirs, files, names, scans, pending, clock, tid, found, ev,
                   csv_path, status, history, interrupted, successes>>

\* lines 231-234: console.input and the fallback input both raise (end of input)
ReadFails ==
    /\ pc = "await"
    /\ NewCycle(None)
    /\ Raise("EOF when reading a line")
    /\ UNCHANGED <<bvars, tvars, ivars, exit_code, db_exists, scans_table,
                   dirs, files, names, scans, pending, clock, raw, tid, found,
                   ev, csv_path, history, interrupted, successes>>

\* lines 237-241: no digits, no lookup
validate(t, r) ==
    IF t = None THEN [pc |-> "await", status |-> Some(InvalidScan(r))]
    ELSE [pc |-> "lookup", status |-> None]

Validate ==
    /\ pc = "normalize"
    /\ tid' = normalize_scan(raw)
    /\ pc' = validate(tid', raw).pc
    /\ status' = IF validate(tid', raw).status = None THEN status
                 ELSE validate(tid', raw).status[1]
    /\ NoRaise
    /\ UNCHANGED <<bvars, tvars, ivars, exit_code, db_exists, scans_table,
                   dirs, files, names, scans, pending, clock, raw, found, ev,
                   csv_path, history, interrupted, cyc, prev, successes>>

\* the rows of the roster tbl that carry the id t
RosterRows(tbl, t) == {tbl[i] : i \in {j \in 1..Len(tbl) : tbl[j].tracking_id = t}}

\* lines 243-247: a miss ends the cycle
lookup(f, t) ==
    IF f = None THEN [pc |-> "await", status |-> Some(IdNotFound(t))]
    ELSE [pc |-> "insert", status |-> None]

Lookup ==
    /\ pc = "lookup"
    /\ found' = fetch_name_by_tracking_id(names, tid[1])
    /\ cyc' = [cyc EXCEPT !.lookups = @ + 1, !.matching = RosterRows(names, tid[1])]
    /\ pc' = lookup(found', tid[1]).pc
    /\ status' = IF lookup(found', tid[1]).status = None THEN status
                 ELSE lookup(found', tid[1]).status[1]
    /\ NoRaise
    /\ UNCHANGED <<bvars, tvars, ivars, exit_code, db_exists, scans_table,
                   dirs, files, names, scans, pending, clock, raw, tid, ev,
                   csv_path, history, interrupted, prev, successes>>

\* line 243: the SELECT raises (database locked, names table missing)
LookupFails ==
    /\ pc = "lookup"
    /\ cyc' = [cyc EXCEPT !.lookups = @ + 1]
    /\ Raise("database error")
    /\ UNCHANGED <<bvars, tvars, ivars, exit_code, db_exists, scans_table,
                   dirs, files, names, scans, pending, clock, raw, tid, found,
                   ev, csv_path, history, interrupted, prev, successes>>


\* (variant: the INSERT is executed twice before the commit)
insert_scan_twice(tbl, txn, row) ==
    [scans |-> commit(tbl, Append(Append(txn, row), row)), pending |-> <<>>]

\* insert_scan (lines 62-72) when it returns: the INSERT joins the connection's
\* open transaction and the commit makes all of it durable
insert_scan(tbl, txn, row) == [scans |-> commit(tbl, Append(txn, row)), pending |-> <<>>]

\* insert_scan when it raises: the INSERT failed; or the COMMIT failed and the
\* transaction stays open (database busy); or the COMMIT failed and the
\* transaction was rolled back (disk full, I/O error)
insert_scan_raises(tbl, txn, row) ==
    { [scans |-> tbl, pending |-> txn,              e |-> "database error"],
      [scans |-> tbl, pending |-> Append(txn, row), e |-> "database error"],
      [scans |-> tbl, pending |-> <<>>,             e |-> "database error"] }

InsertScan ==
    /\ pc = "insert"
    /\ LET row == scan_row(tid[1], found[1][1], found[1][2], clock)
           db  == insert_scan(scans, pending, row)
       IN  /\ scans' = db.scans
           /\ pending' = db.pending
           /\ ev' = Some(<<row.time_hhmm, row.date_mmddyyyy>>)
    /\ cyc' = [cyc EXCEPT !.records = @ + 1]
    /\ pc' = "csv"
    /\ NoRaise
    /\ UNCHANGED <<bvars, tvars, ivars, exit_code, db_exists, scans_table,
                   dirs, files, names, clock, raw, tid, found, csv_path,
                   status, history, interrupted, prev, successes>>

InsertScanFails ==
    /\ pc = "insert"
    /\ \E o \in insert_scan_raises(scans, pending,
                                   scan_row(tid[1], found[1][1], found[1][2], clock)) :
          /\ scans' = o.scans
          /\ pending' = o.pending
          /\ Raise(o.e)
    /\ cyc' = [cyc EXCEPT !.records = @ + 1]
    /\ UNCHANGED <<bvars, tvars, ivars, exit_code, db_exists, scans_table,
                   dirs, files, names, clock, raw, tid, found, ev, csv_path,
                   history, interrupted, prev, successes>>

\* (variant: the time and date are read from the clock again)
event_own_clock ==
    [tracking_id |-> tid[1], first_name |-> found[1][1], last_name |-> found[1][2],
     time_hhmm |-> strftime_HM(now(clock)), date_mmddyyyy |-> strftime_mdY(now(clock))]

\* main's (tid, first, last, hhmm, mdy): the dict of lines 258-264 and the
\* tuple of line 270
event ==
    [tracking_id |-> tid[1], first_name |-> found[1][1], last_name |-> found[1][2],
     time_hhmm |-> ev[1][1], date_mmddyyyy |-> ev[1][2]]

\* append_daily_csv (lines 84-99) when it raises: mkdir failed; or open failed;
\* or the file was opened (so it exists) and nothing reached it; or the file
\* was opened and only the first of the buffered lines reached it
append_daily_csv_raises(ds, fs, folder, path, row) ==
    { [dirs |-> ds, files |-> fs, e |-> "file error"],
      [dirs |-> ds \cup {folder}, files |-> fs, e |-> "file error"],
      [dirs |-> ds \cup {folder}, files |-> write_lines(fs, path, <<>>),
       e |-> "file error"],
      [dirs |-> ds \cup {folder},
       files |-> write_lines(fs, path, SubSeq(csv_lines(fs, path, row), 1,
                                              Len(csv_lines(fs, path, row)) - 1)),
       e |-> "file error"] }

AppendDailyCsv ==
    /\ pc = "csv"
    /\ LET n == now(clock)
       IN  /\ dirs' = dirs \cup {month_folder(n)}
           /\ files' = append_daily_csv(files, get_daily_csv_path(n), event)
           /\ csv_path' = Some(get_daily_csv_path(n))
    /\ pc' = "update"
    /\ NoRaise
    /\ UNCHANGED <<bvars, tvars, ivars, exit_code, db_exists, scans_table,
                   names, scans, pending, clock, raw, tid, found, ev, status,
                   history, interrupted, cyc, prev, successes>>

AppendDailyCsvFails ==
    /\ pc = "csv"
    /\ LET n == now(clock)
       IN  \E o \in append_daily_csv_raises(dirs, files, month_folder(n),
                                            get_daily_csv_path(n), event) :
              /\ dirs' = o.dirs
              /\ files' = o.files
              /\ Raise(o.e)
    /\ UNCHANGED <<bvars, tvars, ivars, exit_code, db_exists, scans_table,
                   names, scans, pending, clock, raw, tid, found, ev, csv_path,
                   history, interrupted, cyc, prev, successes>>

\* lines 268-270: the success status and the history
Update ==
    /\ pc = "update"
    /\ status' = Success(event, csv_path[1])
    /\ history' = appendleft(history, event)
    /\ successes' = Append(successes, event)
    /\ pc' = "await"
    /\ NoRaise
    /\ UNCHANGED <<bvars, tvars, ivars, exit_code, db_exists, scans_table,
                   dirs, files, names, scans, pending, clock, raw, tid, found,
                   ev, csv_path, interrupted, cyc, prev>>

\* (variant: the connection is committed before it is closed)
KeyboardInterrupt_commits ==
    /\ InLoop
    /\ pc' = "stopped"
    /\ interrupted' = TRUE
    /\ scans' = commit(scans, pending)
    /\ pending' = <<>>
    /\ UNCHANGED <<bvars, tvars, ivars, exit_code, db_exists, scans_table,
                   dirs, files, names, clock, raw, tid, found, ev, csv_path,
                   status, history, exc, cyc, prev, successes, faults>>

\* except KeyboardInterrupt: break (lines 274-275), then conn.close() (line 286)
\* drops the open transaction.  Python raises KeyboardInterrupt in the main
\* thread wherever it is when the signal arrives, not only in the read.
KeyboardInterrupt ==
    /\ InLoop
    /\ pc' = "stopped"
    /\ interrupted' = TRUE
    /\ pending' = <<>>
    /\ UNCHANGED <<bvars, tvars, ivars, exit_code, db_exists, scans_table,
                   dirs, files, names, scans, clock, raw, tid, found, ev,
                   csv_path, status, history, exc, cyc, prev, successes,
                   faults>>

\* ---- the environment ----
\* the wall clock advances by a minute
Tick ==
    /\ InLoop
    /\ clock < StartClock + MaxClock
    /\ clock' = clock + 1
    /\ UNCHANGED <<bvars, tvars, ivars, exit_code, pc, db_exists, scans_table,
                   dirs, files, names, scans, pending, raw, tid, found, ev,
                   csv_path, status, history, exc, interrupted, cyc, prev,
                   successes, faults>>

Next ==
    \/ Setup
    \/ ReadLine
    \/ ReadFails
    \/ Validate
    \/ Lookup
    \/ LookupFails
    \/ InsertScan
    \/ InsertScanFails
    \/ AppendDailyCsv
    \/ AppendDailyCsvFails
    \/ Update
    \/ KeyboardInterrupt
    \/ Tick

Init == SessionInit /\ BuildIdle /\ TextIdle /\ ImportIdle
Spec == Init /\ [][Next]_vars

InitBuild == BuildInit /\ SessionIdle /\ TextIdle /\ ImportIdle
NextBuild == Finalize
SpecBuild == InitBuild /\ [][NextBuild]_vars

InitText == TextInit /\ SessionIdle /\ BuildIdle /\ ImportIdle
NextText ==
    \/ ToTitle
    \/ CleanFirst
    \/ ParseFullname
    \/ NormalizeScan
SpecText == InitText /\ [][NextText]_vars

\* the import runs on a machine without a database; the session may be
\* started before, between or after the runs
InitImport == SessionInit /\ ~db_exists /\ BuildIdle /\ TextIdle /\ ImportIdle
NextImport ==
    \/ StartImport
    \/ Menu
    \/ ReadCsv
    \/ Build
    \/ ToSqlite
    \/ WriteOutputCsv
    \/ Setup
SpecImport == InitImport /\ [][NextImport]_vars


-----------------------------------------------------------------------------
(* Properties *)

Positions(fs)     == UNION {{<<p, i>> : i \in 1..Len(fs[p])} : p \in DOMAIN fs}
LineAt(fs, q)     == fs[q[1]][q[2]]
DataPositions(fs) == {q \in Positions(fs) : LineAt(fs, q).kind = "data"}

\* the text cells of a table row, as a CSV data row shows them
Cells(r) == <<ToString(r.tracking_id), r.first_name, r.last_name,
              r.time_hhmm, r.date_mmddyyyy>>

\* the session is between two cycles: the latest cycle has ended
CycleEnded == pc = "await" /\ cyc.n > 0

\* the scans table as the session's connection sees it
Table(st) == st.scans \o st.pending

\* C1: every data row of a daily CSV has a matching committed row in the scans
\* table, counting repetitions: the files never hold more copies of a row than
\* the table has committed, in any state, whatever failed or interrupted.
C1_FileNeverAhead ==
    \A q \in DataPositions(files) :
        Cardinality({q2 \in DataPositions(files) :
                        LineAt(files, q2).fields = LineAt(files, q).fields})
          <= Cardinality({i \in 1..Len(scans) :
                            Cells(scans[i]) = LineAt(files, q).fields})

\* a cycle failed between the two writes: the table holds a committed row that
\* no file shows, next to a row that a file shows
C1_Witness ==
    /\ DataPositions(files) # {}
    /\ Len(scans) > Cardinality(DataPositions(files))
    /\ status.kind = "ERROR"


\* C2: a cycle whose id is in the roster and that ends with the success status
\* has inserted exactly one row into the scans table (as the session's
\* connection sees it) and committed it, and has added exactly one data row to
\* exactly one daily CSV; the two rows carry the same five values.
C2_OneRowEach ==
    CycleEnded /\ status.kind = "SUCCESS" /\ cyc.matching # {} =>
        LET tb == Table(cyc.start)
            ta == Table(Stores)
            fb == cyc.start.files
        IN  /\ Len(ta) = Len(tb) + 1
            /\ SubSeq(ta, 1, Len(tb)) = tb
            /\ pending = <<>>
            /\ Cardinality(DataPositions(files)) = Cardinality(DataPositions(fb)) + 1
            /\ \E p \in DOMAIN files :
                  LET old == IF p \in DOMAIN fb THEN fb[p] ELSE <<>>
                      new == files[p]
                  IN  /\ DOMAIN files = DOMAIN fb \cup {p}
                      /\ \A p2 \in DOMAIN fb \ {p} : files[p2] = fb[p2]
                      /\ Len(new) > Len(old)
                      /\ SubSeq(new, 1, Len(old)) = old
                      /\ new[Len(new)].kind = "data"
                      /\ new[Len(new)].fields = Cells(ta[Len(ta)])

\* the line "id: 104 !" was scanned, 104 is in the roster, the cycle succeeded,
\* and the clock moved on between the insert and the append
C2_Witness ==
    /\ CycleEnded
    /\ status.kind = "SUCCESS"
    /\ cyc.line = Some(<<"i","d",":"," ","1","0","4"," ","!">>)
    /\ status.event.tracking_id = 104
    /\ status.event.time_hhmm # strftime_HM(now(clock))

Key(r) == [tracking_id |-> r.tracking_id, first_name |-> r.first_name,
           last_name |-> r.last_name]

\* C3: every attendance row, in the table and in the daily CSVs, carries an id
\* and a name pair that are a row of the roster; and the row a cycle inserts
\* carries the pair that the roster held for the id when the cycle looked it up.
C3_LookupPrecedesWrite ==
    /\ \A i \in 1..Len(Table(Stores)) :
          Key(Table(Stores)[i]) \in RosterRows(names, Table(Stores)[i].tracking_id)
    /\ \A q \in DataPositions(files) :
          \E i \in 1..Len(names) :
             SubSeq(LineAt(files, q).fields, 1, 3)
               = <<ToString(names[i].tracking_id), names[i].first_name,
                   names[i].last_name>>
    /\ pc \in {"csv", "update"} =>
          /\ cyc.lookups = 1
          /\ Key(scans[Len(scans)]) \in cyc.matching

\* id 104 was scanned and recorded in the table and in a daily CSV with the
\* names the roster holds for 104
C3_Witness ==
    /\ pc = "update"
    /\ DataPositions(files) # {}
    /\ scans[Len(scans)].tracking_id = 104
    /\ \E i \in 1..Len(names) : Key(scans[Len(scans)]) = names[i]

DigitChars == {"0", "1", "2", "3", "4", "5", "6", "7", "8", "9"}
NoDigit(line) == \A i \in 1..Len(line) : line[i] \notin DigitChars

\* C4: a cycle whose line has no digit ends with the invalid-scan status that
\* shows the line, makes no roster lookup and leaves table, files and history
\* as they were; the same line twice in a row gives the same status twice and
\* no attendance row.
C4_InvalidScanRejected ==
    CycleEnded /\ cyc.line # None /\ NoDigit(cyc.line[1]) =>
        /\ status = [kind |-> "INVALID_SCAN", raw |-> cyc.line[1]]
        /\ cyc.lookups = 0
        /\ cyc.records = 0
        /\ Stores = cyc.start
        /\ (prev.cyc.line = cyc.line =>
               /\ prev.status = status
               /\ Stores = prev.cyc.start)

\* the same line without digits was read twice in a row, with rows on record
C4_Witness ==
    /\ CycleEnded
    /\ cyc.line # None
    /\ NoDigit(cyc.line[1])
    /\ prev.cyc.line = cyc.line
    /\ scans # <<>>
    /\ history # <<>>

\* C5: a cycle whose id matches no roster row at its lookup ends with the
\* ID_NOT_FOUND status for that id, never calls the recorder and leaves table,
\* files and history as they were.
C5_LookupMiss ==
    CycleEnded /\ cyc.lookups = 1 /\ cyc.matching = {} /\ exc = None =>
        /\ status = [kind |-> "ID_NOT_FOUND", tid |-> tid[1]]
        /\ cyc.records = 0
        /\ Stores = cyc.start

\* an id was not found while rows are on record
C5_Witness ==
    /\ CycleEnded
    /\ cyc.lookups = 1
    /\ cyc.matching = {}
    /\ exc = None
    /\ status.kind = "ID_NOT_FOUND"
    /\ scans # <<>>
    /\ history # <<>>

\* the k latest items of s, latest first
Newest(k, s) == [i \in 1..k |-> s[Len(s) + 1 - i]]

\* C6: the history is empty when the session starts, never holds more than 3
\* events, and is the latest min(3, n) of the n events recorded with success,
\* newest first.
C6_RollingHistory ==
    /\ Len(history) <= 3
    /\ history = Newest(IF Len(successes) < 3 THEN Len(successes) ELSE 3, successes)
    /\ (pc = "await" /\ cyc.n = 0 => history = <<>>)

\* a fourth success pushed out the first, and the history tells old from new
C6_Witness ==
    /\ Len(successes) = 4
    /\ Len(history) = 3
    /\ history[3] = successes[2]
    /\ history[1] # history[3]


\* C7: every daily CSV that holds a line begins with the header row, and all
\* its other lines are data rows.
C7_HeaderFirst ==
    \A p \in DOMAIN files :
        files[p] # <<>> =>
            /\ files[p][1].kind = "header"
            /\ \A i \in 2..Len(files[p]) : files[p][i].kind = "data"

\* C8: a step that raises leaves the session waiting for the next line with
\* an ERROR status that carries the failure's description; the session is
\* STOPPED only after an interrupt.
C8_ErrorContinues ==
    /\ (exc # None /\ pc # "stopped" =>
           /\ pc = "await"
           /\ status = [kind |-> "ERROR", e |-> exc[1]])
    /\ (pc = "stopped" => interrupted)

\* the CSV append failed after the row was committed, and the session waits
\* for the next line
C8_Witness ==
    /\ exc # None
    /\ pc = "await"
    /\ status.kind = "ERROR"
    /\ cyc.records = 1
    /\ Len(scans) > Len(cyc.start.scans)
    /\ ~interrupted

\* C9 as claimed: a session stopped by an interrupt has no cycle that was cut
\* short with its row committed to the table and no row added to a CSV.
C9_NeverCutShort ==
    pc = "stopped" /\ exc = None /\ Len(scans) > Len(cyc.start.scans)
        => files # cyc.start.files

\* C9 as amended: the step that stops the session is the interrupt, it can
\* come at any point of the loop, it writes nothing and drops the open
\* transaction; once STOPPED, nothing is written.
C9_InterruptStops ==
    /\ [][pc' = "stopped" /\ pc # "stopped" =>
             /\ InLoop
             /\ interrupted'
             /\ scans' = scans
             /\ files' = files
             /\ history' = history
             /\ pending' = <<>>]_vars
    /\ [][pc = "stopped" => UNCHANGED <<pc, scans, pending, files, history>>]_vars

\* the interrupt came between the commit and the CSV append: the session is
\* STOPPED with the cycle's row in the table and in no file
C9_Witness ==
    /\ pc = "stopped"
    /\ interrupted
    /\ exc = None
    /\ cyc.records = 1
    /\ scans = Append(cyc.start.scans, event)
    /\ files = cyc.start.files

\* a < b for strings, by code point
LexLess(a, b) ==
    \E k \in 0..Len(a) :
        /\ k <= Len(b)
        /\ SubSeq(a, 1, k) = SubSeq(b, 1, k)
        /\ \/ k = Len(a) /\ k < Len(b)
           \/ k < Len(a) /\ k < Len(b) /\ ord(a[k + 1]) < ord(b[k + 1])

RowLeq(r1, r2) ==
    \/ LexLess(r1.first_name, r2.first_name)
    \/ /\ r1.first_name = r2.first_name
       /\ (r1.last_name = r2.last_name \/ LexLess(r1.last_name, r2.last_name))

\* C10: the built roster has one entry for each input row with a name, with
\* the ids 100, 101, ... in order, ascending by (first_name, last_name), rows
\* with equal names in their input order; (Amy, Lee) and (Amy, Zed) get 100
\* and 101.
C10_RosterBuild ==
    bpc = "built" =>
        LET kept == {i \in 1..Len(df_out) :
                        df_out[i].first_name # <<>> \/ df_out[i].last_name # <<>>}
            n    == Cardinality(kept)
        IN  /\ Len(cleaned) = n
            /\ \A i \in 1..n : cleaned[i].tracking_id = 100 + i - 1
            /\ \A i \in 1..(n - 1) : RowLeq(cleaned[i], cleaned[i + 1])
            /\ Len(order) = n
            /\ {order[i] : i \in 1..n} = kept
            /\ \A i \in 1..n :
                  /\ cleaned[i].first_name = df_out[order[i]].first_name
                  /\ cleaned[i].last_name = df_out[order[i]].last_name
            /\ \A i, j \in 1..n :
                  i < j /\ df_out[order[i]] = df_out[order[j]] => order[i] < order[j]
            /\ (df_out = <<Name(Amy, Zed), Name(Amy, Lee)>> =>
                   cleaned = <<[tracking_id |-> 100, first_name |-> Amy, last_name |-> Lee],
                               [tracking_id |-> 101, first_name |-> Amy, last_name |-> Zed]>>)

\* a table with two equal rows, a row between them that sorts first, and a
\* row without a name
C10_Witness ==
    /\ bpc = "built"
    /\ df_out = <<Name(Amy, Zed), Name(Amy, Lee), Name(<<>>, <<>>), Name(Amy, Zed)>>
    /\ order = <<2, 1, 4>>
    /\ Len(cleaned) = 3

-----------------------------------------------------------------------------
(* Properties of the roster import *)

\* ids to look up around the ones an import assigns
ProbeIds == (first_tracking_id - 1)..(first_tracking_id + MaxRows)

\* the import has run to its normal end
Imported == bpc = "done"

\* C11: round trip of an import and the lookups: when an import has completed,
\* looking up the tracking_id of each entry of the imported roster returns
\* that entry's (first_name, last_name), and looking up an id that no row of
\* the table carries returns None.
C11_RoundTrip ==
    Imported =>
        /\ \A i \in 1..Len(cleaned) :
               fetch_name_by_tracking_id(names, cleaned[i].tracking_id)
                   = Some(<<cleaned[i].first_name, cleaned[i].last_name>>)
        /\ \A t \in ProbeIds \ ids(names) :
               fetch_name_by_tracking_id(names, t) = None

\* C12: roster uniqueness: whatever import runs have happened, in replace mode
\* or in append mode, from an absent or an existing names table, no two rows
\* of the names table have the same tracking_id.
C12_UniqueIds ==
    \A i, j \in 1..Len(names) :
        i # j => names[i].tracking_id # names[j].tracking_id

\* the name column that the run's mode reads is not in the table read
MissingNameColumn ==
    /\ df # None
    /\ missing_column(df[1], IF choice = <<"1">> THEN <<COMBINED_NAME_COL>>
                             ELSE <<FIRST_COL, LAST_COL>>) # None

\* C13: setup-time errors are fatal before any state change.  An import run
\* whose name column is missing from the input never gets past the build: it
\* ends with a non-zero exit status, and the names table, its index and the
\* mirror CSV are as they were when the run started.  A scan session started
\* without the database file leaves the start only to exit, with a non-zero
\* status, having created neither the scans table nor the output directory and
\* having read no line.
C13_State ==
    /\ MissingNameColumn =>
          /\ bpc \in {"build", "exit"}
          /\ bpc = "exit" => import_exit_code # None /\ import_exit_code[1] # 0
          /\ names = before.names
          /\ names_index = before.names_index
          /\ mirror = before.mirror
    /\ pc = "exit" =>
          /\ exit_code # None /\ exit_code[1] # 0
          /\ ~scans_table
          /\ dirs = {}
          /\ cyc.n = 0

C13_Step ==
    /\ (pc = "start" /\ pc' # "start" /\ ~db_exists) => pc' = "exit"
    /\ (bpc = "build" /\ bpc' # "build" /\ MissingNameColumn) => bpc' = "exit"

C13_SetupErrorsFatal == []C13_State /\ [][C13_Step]_vars

\* a session has exited for want of the database; later a roster was imported,
\* and a second run on a file without the Last Name column has ended
C13_Witness ==
    /\ pc = "exit" /\ exit_code = Some(1)
    /\ bpc = "exit" /\ MissingNameColumn /\ import_exit_code = Some(2)
    /\ before.names # <<>> /\ names = before.names
    /\ before.mirror # None /\ mirror = before.mirror

\* the run was started on a file whose Student Name column holds
\* "Smith, Jane A." and the operator chose 1, the combined format
CombinedRunOnSmithJane ==
    /\ bpc \in {"done", "exit"}
    /\ choice = <<"1">>
    /\ input_csv # None
    /\ COMBINED_NAME_COL \in input_csv[1].columns
    /\ \E i \in 1..Len(input_csv[1].rows) :
           input_csv[1].rows[i][COMBINED_NAME_COL] = SmithJane

\* C14: combined-mode import: a run with the combined format chosen and the
\* input row "Smith, Jane A." ends normally (exit status 0) and the names
\* table then holds an entry with first_name "Jane" and last_name "Smith".
C14_CombinedImport ==
    CombinedRunOnSmithJane =>
        /\ import_exit_code = Some(0)
        /\ \E i \in 1..Len(names) :
               /\ names[i].first_name = <<"J","a","n","e">>
               /\ names[i].last_name = <<"S","m","i","t","h">>

-----------------------------------------------------------------------------
(* Properties of the text functions *)

IsLetter(c) == In(Upper, c) \/ In(Lower, c)

\* a token: not empty, no whitespace
IsToken(s) == s # <<>> /\ \A i \in 1..Len(s) : ~isspace(s[i])

\* a single letter, or a single letter followed by a period
IsInitial(s) ==
    \/ Len(s) = 1 /\ IsLetter(s[1])
    \/ Len(s) = 2 /\ IsLetter(s[1]) /\ s[2] = "."

\* C15: clean_first returns the empty string for every token that is a single
\* letter or a single letter followed by a period, upper-case or lower-case,
\* and for every other token returns its title-cased form, which is not empty.
C15_InitialsDropped ==
    (tpc = "clean_first" /\ IsToken(txt)) =>
        IF IsInitial(txt) THEN res = <<>>
        ELSE res = to_title(txt) /\ res # <<>>

\* the decimal digits of a line, in order
DigitsOf(line) == SelectSeq(line, LAMBDA c : c \in DigitChars)

\* the number a digit string writes, read from the left
RECURSIVE ValueFrom(_, _)
ValueFrom(acc, d) ==
    IF d = <<>> THEN acc
    ELSE ValueFrom(10 * acc + (CHOOSE v \in 0..9 : ToString(v) = Head(d)), Tail(d))

\* C16 as stated: the id extracted from a line is the unsigned integer that
\* the line's digits write, in order, other characters removed, however many
\* digits there are; the line is rejected exactly when it has no digit.
C16_EveryDigitLine ==
    tpc = "normalize_scan" =>
        /\ res = None <=> NoDigit(txt)
        /\ res # None => res[1] = ValueFrom(0, DigitsOf(txt))

\* C16, amended: the same for a line of at most int_max_str_digits digits; a
\* line with more digits is rejected like a line with none.
C16_DigitsUpToLimit ==
    tpc = "normalize_scan" =>
        IF NoDigit(txt) \/ Len(DigitsOf(txt)) > int_max_str_digits
        THEN res = None
        ELSE res = Some(ValueFrom(0, DigitsOf(txt)))

\* a line of digits beyond the limit was rejected
C16_Witness ==
    /\ tpc = "normalize_scan"
    /\ ~NoDigit(txt)
    /\ Len(DigitsOf(txt)) > int_max_str_digits
    /\ res = None

-----------------------------------------------------------------------------
(* Properties of the scan session, continued *)

\* the instants the session's clock can show
Instants == StartClock..(StartClock + MaxClock)

\* C17: day-partition consistency: every data row of a daily CSV carries the
\* date of the file it is in: there is an instant whose file path is the
\* row's file and whose date text is the row's date_mmddyyyy, however the
\* clock advanced between the steps of the cycle, midnight included.
C17_DayPartition ==
    \A q \in DataPositions(files) :
        \E c \in Instants :
            /\ q[1] = get_daily_csv_path(now(c))
            /\ LineAt(files, q).fields[5] = strftime_mdY(now(c))

\* a is b with some elements left out
RECURSIVE IsSubsequence(_, _)
IsSubsequence(a, b) ==
    IF a = <<>> THEN TRUE
    ELSE IF b = <<>> THEN FALSE
    ELSE IF Head(a) = Head(b) THEN IsSubsequence(Tail(a), Tail(b))
    ELSE IsSubsequence(a, Tail(b))

NoRowStatus == {"ERROR", "INVALID_SCAN", "ID_NOT_FOUND"}

\* C18 as stated: between cycles the scans table has as many committed rows as
\* cycles have ended with the success status, and a cycle that ended with the
\* ERROR, invalid-scan or not-found status has left no row in the table.
C18_RowsEqualSuccesses ==
    CycleEnded =>
        /\ Len(scans) = Len(successes)
        /\ status.kind \in NoRowStatus => scans = cyc.start.scans

\* C18, amended: each cycle that ended with the success status has its own
\* committed row in the scans table, so the table has at least as many rows as
\* there were successes; a successful cycle inserted exactly one row; a cycle
\* that ended with the invalid-scan or not-found status inserted and committed
\* nothing; a cycle that ended with the ERROR status left a committed row only
\* if it had called insert_scan, which is the case when the CSV append failed
\* after the commit.
C18_RowPerSuccess ==
    /\ Len(scans) >= Len(successes)
    /\ IsSubsequence(successes, scans)
    /\ CycleEnded /\ status.kind = "SUCCESS" =>
          /\ Len(Table(Stores)) = Len(Table(cyc.start)) + 1
          /\ pending = <<>>
    /\ CycleEnded /\ status.kind \in {"INVALID_SCAN", "ID_NOT_FOUND"} =>
          /\ scans = cyc.start.scans
          /\ pending = cyc.start.pending
    /\ CycleEnded /\ status.kind = "ERROR" /\ scans # cyc.start.scans =>
          /\ cyc.records = 1
          /\ Len(scans) = Len(cyc.start.scans) + Len(cyc.start.pending) + 1

\* the CSV append failed after the commit: the cycle ended with ERROR, its
\* row is in the table, and the table has more rows than there were successes
C18_Witness ==
    /\ CycleEnded
    /\ status.kind = "ERROR"
    /\ cyc.records = 1
    /\ Len(scans) = Len(cyc.start.scans) + 1
    /\ Len(successes) >= 1
    /\ Len(scans) > Len(successes)

\* C19: to_title keeps the separators: the result has the same length as
\* _norm(s), a space exactly where _norm(s) has one, the same letters up to
\* case elsewhere, and so no two spaces in a row.
C19_SeparatorsPreserved ==
    tpc = "to_title" =>
        LET n == _norm(txt)
        IN  /\ Len(res) = Len(n)
            /\ \A i \in 1..Len(n) :
                  /\ res[i] = " " <=> n[i] = " "
                  /\ lower(res[i]) = lower(n[i])
            /\ \A i \in 1..(Len(res) - 1) : ~(res[i] = " " /\ res[i + 1] = " ")

\* C20: the rolling history is updated only after both sinks were written: in
\* every state each event of the history has a committed row in the scans
\* table and a data row in a daily CSV with the same values, and a cycle that
\* ended with the ERROR status, in the insert, in the CSV append or before
\* them, has left the history as it was when the cycle began.
C20_HistoryAfterBothSinks ==
    /\ \A i \in 1..Len(history) :
          /\ \E j \in 1..Len(scans) : scans[j] = history[i]
          /\ \E q \in DataPositions(files) :
                 LineAt(files, q).fields = Cells(history[i])
    /\ CycleEnded /\ status.kind = "ERROR" => history = cyc.start.history

\* after two recorded scans, a cycle committed its row, failed in the CSV
\* append and ended with ERROR; the history still shows the two earlier events
C20_Witness ==
    /\ CycleEnded
    /\ status.kind = "ERROR"
    /\ scans # cyc.start.scans
    /\ Len(history) = 2
    /\ history = cyc.start.history

=============================================================================
